---- MODULE Spec2Model ----
(***************************************************************************)
(* A model of aura.py: the hourly price aggregation of fetch_prices, its   *)
(* per-date file cache, and the report formatters.                         *)
(*                                                                         *)
(* Representation.                                                         *)
(*  - A Python str that the code inspects character by character (an hour *)
(*    label, a date, a price given as text) is a sequence of one-character *)
(*    strings: "07" is <<"0","7">>.  Text that is only produced (a report  *)
(*    line) is a TLA+ string.                                              *)
(*  - A Python float is an integer number of 1e-5 units (Scale), so that   *)
(*    round(x, 4), the 1e-4 and 1e-5 tolerances and "%.4f" all do          *)
(*    something.  Binary rounding error is not modelled.                   *)
(*  - A Python dict is the sequence of its items in insertion order, each  *)
(*    item a record [k |-> key, v |-> value], keys distinct.               *)
(***************************************************************************)
EXTENDS Integers, Sequences, FiniteSets, TLC

VARIABLES
    pc,        \* which call of the program the behaviour is at
    args,      \* the arguments (and environment answers) of the call
    ret,       \* what the call returned, or the fault it raised
    cache,     \* the cache directory: file name -> content of the file
    requests,  \* number of HTTP GETs issued so far
    hist       \* history of the fetch_prices calls made so far

vars == <<pc, args, ret, cache, requests, hist>>

----------------------------------------------------------------------------
(* Characters, integers and text *)

DigitChars == <<"0", "1", "2", "3", "4", "5", "6", "7", "8", "9">>

IsDigit(c) == \E i \in 1..10 : DigitChars[i] = c

DigitVal(c) == (CHOOSE i \in 1..10 : DigitChars[i] = c) - 1

Abs(n) == IF n < 0 THEN -n ELSE n

\* "".join(chars): the characters as one piece of text
RECURSIVE Str(_)
Str(chars) == IF chars = <<>> THEN "" ELSE Head(chars) \o Str(Tail(chars))

\* f"{n:02d}" for n >= 0: at least two digits, zero padded
RECURSIVE DecChars(_)
DecChars(n) == IF n < 10 THEN <<DigitChars[n + 1]>>
               ELSE Append(DecChars(n \div 10), DigitChars[(n % 10) + 1])

Fmt02(n) == IF n < 10 THEN <<"0">> \o DecChars(n) ELSE DecChars(n)

\* int(h) for a str of decimal digits
RECURSIVE IntOf(_)
IntOf(chars) == IF chars = <<>> THEN 0
                ELSE 10 * IntOf(SubSeq(chars, 1, Len(chars) - 1))
                     + DigitVal(chars[Len(chars)])

----------------------------------------------------------------------------
(* Floats: integers counting 1e-5, the finest step any tolerance of the    *)
(* program (1e-5, 1e-4) or round(x, 4) can tell apart.                     *)

Scale == 100000

\* round(x, 4): to the nearest multiple of 1e-4 (ties to even)
Round4(n) ==
    LET a  == Abs(n)
        q  == a \div 10
        r  == a % 10
        up == r > 5 \/ (r = 5 /\ q % 2 = 1)
        m  == 10 * (IF up THEN q + 1 ELSE q)
    IN  IF n < 0 THEN -m ELSE m

AllDigits(chars) == \A i \in 1..Len(chars) : IsDigit(chars[i])

RECURSIVE Pow10(_)
Pow10(k) == IF k = 0 THEN 1 ELSE 10 * Pow10(k - 1)

\* The value of the digits after a decimal point, in units (five places).
FracUnits(fr) == IF Len(fr) <= 5 THEN IntOf(fr) * Pow10(5 - Len(fr))
                 ELSE IntOf(SubSeq(fr, 1, 5))

\* float(s) for a str s: [sign] digits [ "." digits ], at least one digit;
\* anything else raises ValueError.
ParseParts(neg, ip, fp) ==
    IF AllDigits(ip) /\ AllDigits(fp) /\ Len(ip) + Len(fp) > 0
    THEN [st |-> "ok",
          n  |-> (IF neg THEN -1 ELSE 1) * (IntOf(ip) * Scale + FracUnits(fp))]
    ELSE [st |-> "ValueError", n |-> 0]

\* the first "." of body, or one past its end
DotAt(body) ==
    IF \E i \in 1..Len(body) : body[i] = "."
    THEN CHOOSE i \in 1..Len(body) :
             body[i] = "." /\ \A j \in 1..(i - 1) : body[j] # "."
    ELSE Len(body) + 1

ParseUnsigned(neg, body, dot) ==
    ParseParts(neg, SubSeq(body, 1, dot - 1), SubSeq(body, dot + 1, Len(body)))

ParseSigned(neg, body) == ParseUnsigned(neg, body, DotAt(body))

ParseFloat(s) ==
    IF s # <<>> /\ Head(s) \in {"-", "+"}
    THEN ParseSigned(Head(s) = "-", Tail(s))
    ELSE ParseSigned(FALSE, s)

(* JSON values a "priceWestDenmark" field may hold: null (or the key       *)
(* missing), a number, a string, a list.                                   *)
JNull      == [t |-> "null", n |-> 0, s |-> <<>>]
JNum(n)    == [t |-> "num",  n |-> n, s |-> <<>>]
JStr(s)    == [t |-> "str",  n |-> 0, s |-> s]
JList      == [t |-> "list", n |-> 0, s |-> <<>>]

\* float(price) for a price that is not None
ToFloat(price) ==
    CASE price.t = "num"  -> [st |-> "ok", n |-> price.n]
      [] price.t = "str"  -> ParseFloat(price.s)
      [] OTHER            -> [st |-> "TypeError", n |-> 0]

----------------------------------------------------------------------------
(* fetch_prices, lines 69-97: the reduction of a payload to hourly totals  *)

\* The inner loop over one series' time points for one hour label.
\* acc = [total, found, exc]; a fault that no except clause catches ends
\* the scan with exc set.
\* lines 84-90: total += float(price); found = True, under "except ValueError"
AddPrice(acc, f) ==
    CASE f.st = "ok"         -> [total |-> acc.total + f.n, found |-> TRUE, exc |-> ""]
      [] f.st = "ValueError" -> acc
      [] OTHER               -> [acc EXCEPT !.exc = f.st]

\* lines 81-90: one time point
VisitTimePoint(tp, hour_str, acc) ==
    IF tp.name = hour_str /\ tp.priceWestDenmark.t # "null"
    THEN AddPrice(acc, ToFloat(tp.priceWestDenmark))
    ELSE acc

RECURSIVE ScanTimePoints(_, _, _)
ScanTimePoints(tps, hour_str, acc) ==
    IF tps = <<>> \/ acc.exc # "" THEN acc
    ELSE ScanTimePoints(Tail(tps), hour_str, VisitTimePoint(Head(tps), hour_str, acc))

RECURSIVE ScanSeries(_, _, _)
ScanSeries(chart_series, hour_str, acc) ==
    IF chart_series = <<>> \/ acc.exc # "" THEN acc
    ELSE ScanSeries(Tail(chart_series), hour_str,
                    ScanTimePoints(Head(chart_series).timePoints, hour_str, acc))

\* The outer loop, for hour_idx in range(24), from hour_idx on.
\* st = [totals, exc]
\* lines 91-94: hourly_totals[hour_str] = round(total, 4) if found
PutTotal(st, hour_str, acc) ==
    IF acc.exc # "" THEN [st EXCEPT !.exc = acc.exc]
    ELSE IF acc.found
         THEN [st EXCEPT !.totals = Append(@, [k |-> hour_str, v |-> Round4(acc.total)])]
         ELSE st

\* lines 76-94: one hour
VisitHour(chart_series, hour_str, st) ==
    PutTotal(st, hour_str,
             ScanSeries(chart_series, hour_str,
                        [total |-> 0, found |-> FALSE, exc |-> ""]))

RECURSIVE HourLoop(_, _, _)
HourLoop(chart_series, hour_idx, st) ==
    IF hour_idx >= 24 \/ st.exc # "" THEN st
    ELSE HourLoop(chart_series, hour_idx + 1,
                  VisitHour(chart_series, Fmt02(hour_idx), st))

\* What a call returns: None, a dict, or a raised exception.
RetNone      == [kind |-> "None", val |-> <<>>, exc |-> ""]
RetDict(d)   == [kind |-> "dict", val |-> d, exc |-> ""]
RetRaise(e)  == [kind |-> "raise", val |-> <<>>, exc |-> e]

\* "not chart_series or not isinstance(chart_series, list)"
Truthy(cs) == cs.t \in {"list", "dict"} /\ (cs.t = "list" => cs.items # <<>>)
IsList(cs) == cs.t = "list"

\* data.get("chartSeries")
GetChartSeries(data) ==
    IF data.has THEN data.chartSeries ELSE [t |-> "null", items |-> <<>>]

\* lines 96-97 and 107, or the fault that left the loop
AggResult(st) ==
    IF st.exc # "" THEN RetRaise(st.exc)
    ELSE IF st.totals = <<>> THEN RetNone
    ELSE RetDict(st.totals)

\* lines 70-97
AggregateSeries(chart_series) ==
    IF ~Truthy(chart_series) \/ ~IsList(chart_series) THEN RetNone
    ELSE AggResult(HourLoop(chart_series.items, 0, [totals |-> <<>>, exc |-> ""]))

Aggregate(data) == AggregateSeries(GetChartSeries(data))

----------------------------------------------------------------------------
(* The cache files: json.dump and json.load of a dict of floats *)

\* repr(x) of a float, as json.dump writes it: the integer part, a point,
\* and the decimals without trailing zeros (at least one).
RECURSIVE StripZeros(_)
StripZeros(chars) ==
    IF Len(chars) > 1 /\ chars[Len(chars)] = "0"
    THEN StripZeros(SubSeq(chars, 1, Len(chars) - 1))
    ELSE chars

RECURSIVE PadLeft(_, _)
PadLeft(chars, width) ==
    IF Len(chars) >= width THEN chars ELSE PadLeft(<<"0">> \o chars, width)

\* A variant of FloatRepr that loses the zeros leading the fraction
FloatReprNoPad(n) ==
    LET a == Abs(n)
    IN  (IF n < 0 THEN <<"-">> ELSE <<>>)
        \o DecChars(a \div Scale) \o <<".">>
        \o StripZeros(DecChars(a % Scale))

FloatRepr(n) ==
    LET a == Abs(n)
    IN  (IF n < 0 THEN <<"-">> ELSE <<>>)
        \o DecChars(a \div Scale) \o <<".">>
        \o StripZeros(PadLeft(DecChars(a % Scale), 5))

\* json.dump(d, f): the text of the object, item by item
JsonDump(d) == [i \in 1..Len(d) |-> [k |-> d[i].k, v |-> FloatRepr(d[i].v)]]

\* json.load(f) of such a text
JsonLoad(text) == [i \in 1..Len(text) |-> [k |-> text[i].k, v |-> ParseFloat(text[i].v).n]]

\* A cache file: missing, present but not loadable (unreadable, truncated,
\* not JSON), or holding the text of a JSON object.
Absent     == [st |-> "absent",  text |-> <<>>]
Corrupt    == [st |-> "corrupt", text |-> <<>>]
Json(text) == [st |-> "json",    text |-> text]

\* date_str.replace('/', ''), the part of the file name that varies
CacheFile(date_str) == SelectSeq(date_str, LAMBDA c : c # "/")

----------------------------------------------------------------------------
(* fetch_prices, lines 37-107, as one step.                                *)
(*   response: what requests.get / raise_for_status / .json() gave:        *)
(*             st = "ok" with the payload, "RequestException" or           *)
(*             "ValueError" (a body that is not JSON)                      *)
(*   disk:     what writing the cache file does: "ok", "open_fails" (no    *)
(*             file is touched), "write_fails" (the file was opened for    *)
(*             writing, so truncated, and the dump did not complete)       *)

NoDict == [has |-> FALSE, val |-> <<>>, kept |-> FALSE]
SomeDict(d, kept) == [has |-> TRUE, val |-> d, kept |-> kept]

CacheHit(entry) == entry.st = "json"

\* lines 99-105: the cache file after the attempt to store hourly_totals
StoreCache(entry, hourly_totals, disk) ==
    CASE disk = "ok"          -> Json(JsonDump(hourly_totals))
      [] disk = "write_fails" -> Corrupt
      [] OTHER                -> entry

\* lines 53-97: the result when the cache gave nothing
FetchFresh(response) ==
    IF response.st # "ok" THEN RetNone ELSE Aggregate(response.data)

\* The history kept of the calls: the state before the last call; for each
\* file the dict the first successful call for it returned and whether that
\* call left a loadable file; the files the program has stored or touched.
Record(cache_file, r, entry_after) ==
    [calls     |-> hist.calls + 1,
     cache     |-> cache,
     requests  |-> requests,
     prior     |-> hist.first[cache_file],
     first     |-> IF r.kind = "dict" /\ ~hist.first[cache_file].has
                   THEN [hist.first EXCEPT ![cache_file] =
                                SomeDict(r.val, CacheHit(entry_after))]
                   ELSE hist.first,
     stored    |-> IF entry_after # cache[cache_file] /\ entry_after.st = "json"
                   THEN hist.stored \cup {cache_file}
                   ELSE hist.stored,
     touched   |-> IF entry_after # cache[cache_file]
                   THEN hist.touched \cup {cache_file}
                   ELSE hist.touched]

Return(cache_file, r, entry_after, gets) ==
    /\ ret' = r
    /\ requests' = requests + gets
    /\ cache' = [cache EXCEPT ![cache_file] = entry_after]
    /\ hist' = Record(cache_file, r, entry_after)

\* lines 53-107: no cache file could be loaded
Miss(cache_file, entry, fresh, disk) ==
    IF fresh.kind = "dict"
    THEN Return(cache_file, fresh, StoreCache(entry, fresh.val, disk), 1)
    ELSE Return(cache_file, fresh, entry, 1)

\* lines 45-51, then the rest
Lookup(cache_file, entry, response, disk) ==
    IF CacheHit(entry)
    THEN Return(cache_file, RetDict(JsonLoad(entry.text)), entry, 0)
    ELSE Miss(cache_file, entry, FetchFresh(response), disk)

FetchPrices(date_str, response, disk) ==
    /\ Lookup(CacheFile(date_str), cache[CacheFile(date_str)], response, disk)
    /\ args' = [date_str |-> date_str, response |-> response, disk |-> disk]

----------------------------------------------------------------------------
(* Text helpers of the formatters *)

\* sep.join(parts)
RECURSIVE JoinWith(_, _)
JoinWith(parts, sep) ==
    IF parts = <<>> THEN ""
    ELSE IF Len(parts) = 1 THEN parts[1]
    ELSE parts[1] \o sep \o JoinWith(Tail(parts), sep)

\* "{:<w}".format(text)
RECURSIVE PadRight(_, _)
PadRight(text, w) == IF Len(text) >= w THEN text ELSE PadRight(text \o " ", w)

\* a / m for a >= 0, to the nearest integer (ties to even)
RoundDiv(a, m) ==
    IF 2 * (a % m) > m \/ (2 * (a % m) = m /\ (a \div m) % 2 = 1)
    THEN (a \div m) + 1
    ELSE a \div m

\* sum(xs)
RECURSIVE Sum(_)
Sum(xs) == IF xs = <<>> THEN 0 ELSE Head(xs) + Sum(Tail(xs))

\* rstrip("0") of text with a "." in it, then rstrip(".")
RECURSIVE RStripZeros(_)
RStripZeros(chars) ==
    IF chars # <<>> /\ chars[Len(chars)] = "0"
    THEN RStripZeros(SubSeq(chars, 1, Len(chars) - 1))
    ELSE chars

RStripDot(chars) ==
    IF chars # <<>> /\ chars[Len(chars)] = "."
    THEN SubSeq(chars, 1, Len(chars) - 1)
    ELSE chars

\* f"{price:.{max_decimals}f}" given q = |price| in steps of 10^-max_decimals
Fixed(neg, q, max_decimals) ==
    (IF neg THEN <<"-">> ELSE <<>>)
    \o DecChars(q \div Pow10(max_decimals)) \o <<".">>
    \o PadLeft(DecChars(q % Pow10(max_decimals)), max_decimals)

\* line 33 applied to line 32
Trimmed(neg, q, max_decimals) == Str(RStripDot(RStripZeros(Fixed(neg, q, max_decimals))))

\* format_price, lines 27-34 (max_decimals in 1..5)
format_price(price, max_decimals) ==
    Trimmed(price < 0, RoundDiv(Abs(price), Pow10(5 - max_decimals)), max_decimals)

\* format_price(sum(xs) / len(xs)): the quotient is rounded once, to 1e-4
format_mean(xs) == Trimmed(Sum(xs) < 0, RoundDiv(Abs(Sum(xs)), Len(xs) * 10), 4)

----------------------------------------------------------------------------
(* _format_hour_ranges, lines 110-132 *)

\* sorted(xs) for a list of ints: insertion of each element in turn
RECURSIVE InsertInt(_, _)
InsertInt(sorted, x) ==
    IF sorted = <<>> THEN <<x>>
    ELSE IF x < Head(sorted) THEN <<x>> \o sorted
    ELSE <<Head(sorted)>> \o InsertInt(Tail(sorted), x)

RECURSIVE SortedInts(_)
SortedInts(xs) ==
    IF xs = <<>> THEN <<>>
    ELSE InsertInt(SortedInts(SubSeq(xs, 1, Len(xs) - 1)), xs[Len(xs)])

\* A variant of RangeText that ends a run at e + 1 without the wrap at 24
RangeTextNoWrap(start, end) ==
    IF start = end
    THEN Str(Fmt02(start)) \o ":00"
    ELSE Str(Fmt02(start)) \o ":00-" \o Str(Fmt02(end + 1)) \o ":00"

\* lines 124-126 and 130: one run as text
RangeText(start, end) ==
    IF start = end
    THEN Str(Fmt02(start)) \o ":00"
    ELSE Str(Fmt02(start)) \o ":00-" \o Str(Fmt02((end + 1) % 24)) \o ":00"

\* lines 119-131: the loop from index i (1-based here), then the last flush
RECURSIVE RangeLoop(_, _, _, _, _)
RangeLoop(hour_ints, i, start, end, ranges) ==
    IF i > Len(hour_ints) THEN Append(ranges, RangeText(start, end))
    ELSE IF hour_ints[i] = end + 1
         THEN RangeLoop(hour_ints, i + 1, start, hour_ints[i], ranges)
         ELSE RangeLoop(hour_ints, i + 1, hour_ints[i], hour_ints[i],
                        Append(ranges, RangeText(start, end)))

RangesOfSorted(hour_ints) ==
    JoinWith(RangeLoop(hour_ints, 2, hour_ints[1], hour_ints[1], <<>>), ", ")

_format_hour_ranges(hours) ==
    IF hours = <<>> THEN ""
    ELSE RangesOfSorted(SortedInts([i \in 1..Len(hours) |-> IntOf(hours[i])]))

----------------------------------------------------------------------------
(* _ascii_sparkline, lines 135-143.  An element of the input list is       *)
(* [some |-> FALSE, v |-> 0] for None and [some |-> TRUE, v |-> x] for x.  *)

None == [some |-> FALSE, v |-> 0]
Some(x) == [some |-> TRUE, v |-> x]

bars == <<"▁", "▂", "▃", "▄", "▅", "▆", "▇", "█">>

RECURSIVE MinOf(_)
MinOf(xs) == IF Len(xs) = 1 THEN xs[1]
             ELSE IF xs[1] <= MinOf(Tail(xs)) THEN xs[1] ELSE MinOf(Tail(xs))

RECURSIVE MaxOf(_)
MaxOf(xs) == IF Len(xs) = 1 THEN xs[1]
             ELSE IF xs[1] >= MaxOf(Tail(xs)) THEN xs[1]
             ELSE MaxOf(Tail(xs))

\* A variant of scale that spreads the values over 8 steps instead of 7
scaleBy8(p, min_p, max_p) ==
    IF max_p > min_p THEN ((p - min_p) * 8) \div (max_p - min_p) ELSE 0

\* line 141: int((p - min_p) / (max_p - min_p) * 7) if max_p > min_p else 0
\* (p >= min_p, so int() truncates a value that is not negative)
scale(p, min_p, max_p) ==
    IF max_p > min_p THEN ((p - min_p) * 7) \div (max_p - min_p) ELSE 0

\* bars[i] for a Python index i; "IndexError" when i is out of range
Glyph(i) == IF i \in 0..7 THEN bars[i + 1]
            ELSE IF i \in -8..-1 THEN bars[i + 9]
            ELSE "IndexError"

SparkOf(prices, min_p, max_p) ==
    [i \in 1..Len(prices) |-> Glyph(scale(prices[i], min_p, max_p))]

SparkOfValues(prices) ==
    IF prices = <<>> THEN <<>>
    ELSE SparkOf(prices, MinOf(prices), MaxOf(prices))

\* line 137: [p for p in prices if p is not None]
RECURSIVE DropNone(_)
DropNone(prices) ==
    IF prices = <<>> THEN <<>>
    ELSE IF Head(prices).some THEN <<Head(prices).v>> \o DropNone(Tail(prices))
    ELSE DropNone(Tail(prices))

\* The result is the list of its glyphs; Str of it is the text.
_ascii_sparkline(prices) == SparkOfValues(DropNone(prices))

----------------------------------------------------------------------------
(* The reports.  A report is the list of its lines before "\n".join; a     *)
(* line is [fmt |-> which format string, a |-> the texts put into it].     *)

Line(fmt, a) == [fmt |-> fmt, a |-> a]

Row6(a) ==
    PadRight(a[1], 11) \o " | " \o PadRight(a[2], 8) \o " | " \o PadRight(a[3], 8)
    \o " | " \o PadRight(a[4], 8) \o " | " \o PadRight(a[5], 8) \o " | "
    \o PadRight(a[6], 5)

\* The format strings of lines 154-188 and 209-263
RenderLine(line) ==
    CASE line.fmt = "no_data"    -> "No price data for " \o line.a[1] \o "."
      [] line.fmt = "title"      -> " HOURLY POWER PRICES (DK1) - " \o line.a[1] \o " "
      [] line.fmt = "average"    -> "Average Price: " \o line.a[1] \o " DKK/kWh"
      [] line.fmt = "cheapest"   -> "Cheapest: " \o line.a[1] \o " (" \o line.a[2] \o " DKK/kWh)"
      [] line.fmt = "expensive"  -> "Most Expensive: " \o line.a[1] \o " (" \o line.a[2] \o " DKK/kWh)"
      [] line.fmt = "sparkline"  -> "Trend Sparkline: " \o line.a[1]
      [] line.fmt = "hour"       -> line.a[1] \o ":00 - " \o line.a[2] \o ":00 | "
                                    \o line.a[3] \o " DKK/kWh"
      [] line.fmt = "cmp_title"  -> " PRICE COMPARISON (" \o line.a[1] \o " vs "
                                    \o line.a[2] \o ") "
      [] line.fmt = "avg_change" -> "Avg Change: " \o line.a[1] \o " DKK/kWh"
      [] line.fmt = "counts"     -> "Increased: " \o line.a[1] \o " | Decreased: "
                                    \o line.a[2] \o " | Stable: " \o line.a[3]
      [] line.fmt = "diff_spark" -> "Trend Sparkline (Diffs): " \o line.a[1]
      [] OTHER                   -> Row6(line.a)

\* "\n".join(lines): the text returned
Text(lines) == JoinWith([i \in 1..Len(lines) |-> RenderLine(lines[i])], "\n")

\* dict helpers
HasKey(d, k) == \E i \in 1..Len(d) : d[i].k = k
Lookup1(d, k) == d[CHOOSE i \in 1..Len(d) : d[i].k = k].v
ValuesOf(d) == [i \in 1..Len(d) |-> d[i].v]

\* sorted(...): a stable sort by a key that is a tuple of ints
RECURSIVE LexLess(_, _)
LexLess(a, b) ==
    IF b = <<>> THEN FALSE
    ELSE IF a = <<>> THEN TRUE
    ELSE IF Head(a) # Head(b) THEN Head(a) < Head(b)
    ELSE LexLess(Tail(a), Tail(b))

\* ord(c) for the digits; any other character sorts after them
Ord(c) == IF IsDigit(c) THEN 48 + DigitVal(c) ELSE 128

\* by = "key": the key as text; "asc": the value; "desc": the value, reversed
SortKey(item, by) ==
    CASE by = "key"  -> [i \in 1..Len(item.k) |-> Ord(item.k[i])]
      [] by = "asc"  -> <<item.v>>
      [] OTHER       -> <<-item.v>>

RECURSIVE InsertStable(_, _, _)
InsertStable(sorted, x, by) ==
    IF sorted = <<>> THEN <<x>>
    ELSE IF LexLess(SortKey(x, by), SortKey(Head(sorted), by)) THEN <<x>> \o sorted
    ELSE <<Head(sorted)>> \o InsertStable(Tail(sorted), x, by)

RECURSIVE SortItems(_, _)
SortItems(items, by) ==
    IF items = <<>> THEN <<>>
    ELSE InsertStable(SortItems(SubSeq(items, 1, Len(items) - 1), by),
                      items[Len(items)], by)

----------------------------------------------------------------------------
(* format_prices_for_display, lines 146-190 *)

\* lines 166-167: [h for h, p in prices.items() if abs(p - target) < 0.00001]
RECURSIVE HoursAt(_, _)
HoursAt(prices, target) ==
    IF prices = <<>> THEN <<>>
    ELSE IF Abs(Head(prices).v - target) < 1
         THEN <<Head(prices).k>> \o HoursAt(Tail(prices), target)
         ELSE HoursAt(Tail(prices), target)

\* lines 157-176, given values = list(prices.values()) and its min and max
SummaryLines(prices, date_str, values, min_price, max_price) ==
    << Line("title", <<Str(date_str)>>),
       Line("average", <<format_mean(values)>>),
       Line("cheapest", <<_format_hour_ranges(HoursAt(prices, min_price)),
                          format_price(min_price, 4)>>),
       Line("expensive", <<_format_hour_ranges(HoursAt(prices, max_price)),
                           format_price(max_price, 4)>>),
       Line("sparkline", <<Str(_ascii_sparkline([i \in 1..Len(values) |-> Some(values[i])]))>>) >>

Summary(prices, date_str, values) ==
    SummaryLines(prices, date_str, values, MinOf(values), MaxOf(values))

\* lines 179-183: the order of the body
OrderedItems(prices, sort_by) ==
    IF sort_by = "price" THEN SortItems(prices, "asc")
    ELSE IF sort_by = "price_desc" THEN SortItems(prices, "desc")
    ELSE SortItems(prices, "key")

\* A variant of HourLine that shows hour + 1 without the wrap at 24
HourLineNoWrap(item) ==
    Line("hour", <<Str(item.k), Str(Fmt02(IntOf(item.k) + 1)),
                   format_price(item.v, 4)>>)

\* lines 186-189
HourLine(item) ==
    Line("hour", <<Str(item.k), Str(Fmt02((IntOf(item.k) + 1) % 24)),
                   format_price(item.v, 4)>>)

BodyLines(items) == [i \in 1..Len(items) |-> HourLine(items[i])]

format_prices_for_display(prices, date_str, sort_by) ==
    IF prices = <<>> THEN <<Line("no_data", <<Str(date_str)>>)>>
    ELSE Summary(prices, date_str, ValuesOf(prices))
         \o BodyLines(OrderedItems(prices, sort_by))

----------------------------------------------------------------------------
(* format_comparison_for_display, lines 193-265.  A prices argument is     *)
(* [some |-> FALSE, d |-> <<>>] for None and [some |-> TRUE, d |-> dict].  *)

NoPrices == [some |-> FALSE, d |-> <<>>]
PricesOf(d) == [some |-> TRUE, d |-> d]

\* A variant of Falsy that takes only None, not the empty dict, as falsy
IsNone(prices) == ~prices.some

\* "not prices"
Falsy(prices) == ~prices.some \/ prices.d = <<>>

\* A variant of CountDiff that counts without the 0.0001 tolerance
CountDiffExact(acc, h, diff) ==
    [diffs  |-> Append(acc.diffs, [k |-> h, v |-> diff]),
     up     |-> acc.up + (IF diff > 0 THEN 1 ELSE 0),
     down   |-> acc.down + (IF diff > 0 THEN 0 ELSE IF diff < 0 THEN 1 ELSE 0),
     stable |-> acc.stable + (IF diff = 0 THEN 1 ELSE 0)]

\* lines 217-224: one common hour
CountDiff(acc, h, diff) ==
    [diffs  |-> Append(acc.diffs, [k |-> h, v |-> diff]),
     up     |-> acc.up + (IF diff > 10 THEN 1 ELSE 0),
     down   |-> acc.down + (IF diff > 10 THEN 0 ELSE IF diff < -10 THEN 1 ELSE 0),
     stable |-> acc.stable + (IF diff > 10 \/ diff < -10 THEN 0 ELSE 1)]

VisitDiff(today_prices, yesterday_prices, h, acc) ==
    IF HasKey(today_prices, h) /\ HasKey(yesterday_prices, h)
    THEN CountDiff(acc, h, Lookup1(today_prices, h) - Lookup1(yesterday_prices, h))
    ELSE acc

\* lines 214-224: for hour in range(24), from hour on
RECURSIVE DiffLoop(_, _, _, _)
DiffLoop(today_prices, yesterday_prices, hour, acc) ==
    IF hour >= 24 THEN acc
    ELSE DiffLoop(today_prices, yesterday_prices, hour + 1,
                  VisitDiff(today_prices, yesterday_prices, Fmt02(hour), acc))

\* lines 226-232
DiffSummary(acc) ==
    IF acc.diffs = <<>> THEN <<>>
    ELSE << Line("avg_change", <<format_mean(ValuesOf(acc.diffs))>>),
            Line("counts", <<Str(DecChars(acc.up)), Str(DecChars(acc.down)),
                             Str(DecChars(acc.stable))>>),
            Line("diff_spark",
                 <<Str(_ascii_sparkline([i \in 1..Len(acc.diffs) |->
                                            Some(acc.diffs[i].v)]))>>) >>

Header == Line("header", <<"Hour", "Yest", "Today", "Change", "% Chg", "Trend">>)

\* lines 240-243
OrderedDiffs(diffs, sort_by) ==
    IF sort_by = "diff" THEN SortItems(diffs, "asc")
    ELSE IF sort_by = "diff_desc" THEN SortItems(diffs, "desc")
    ELSE diffs

\* a / b * 100 for a >= 0, b > 0, in hundredths, by long division
Hundredths(a, b) ==
    100 * ((a * 100) \div b) + RoundDiv(((a * 100) % b) * 100, b)

\* lines 248, 250: format_price(diff / yest * 100, 2) for yest # 0
format_percent(diff, yest) ==
    Trimmed((diff < 0) # (yest < 0), Hundredths(Abs(diff), Abs(yest)), 2)

\* lines 246-264: one row
RowOf(hour_str, diff, yest, today) ==
    Line("row",
         << Str(hour_str) \o ":00-" \o Str(Fmt02((IntOf(hour_str) + 1) % 24)) \o ":00",
            format_price(yest, 4),
            format_price(today, 4),
            IF diff >= 0 THEN format_price(diff, 4) ELSE "-" \o format_price(Abs(diff), 4),
            IF yest # 0 THEN format_percent(diff, yest) \o "%" ELSE "N/A",
            IF diff > 10 THEN "▲" ELSE IF diff < -10 THEN "▼" ELSE "●" >>)

Rows(diffs, today_prices, yesterday_prices) ==
    [i \in 1..Len(diffs) |->
        RowOf(diffs[i].k, diffs[i].v,
              Lookup1(yesterday_prices, diffs[i].k), Lookup1(today_prices, diffs[i].k))]

CompareLines(today_prices, today_date_str, yesterday_prices, yesterday_date_str, sort_by, acc) ==
    <<Line("cmp_title", <<Str(today_date_str), Str(yesterday_date_str)>>)>>
    \o DiffSummary(acc)
    \o <<Header>>
    \o Rows(OrderedDiffs(acc.diffs, sort_by), today_prices, yesterday_prices)

format_comparison_for_display(today_prices, today_date_str, yesterday_prices, yesterday_date_str, sort_by) ==
    IF Falsy(today_prices) \/ Falsy(yesterday_prices) THEN <<>>
    ELSE CompareLines(today_prices.d, today_date_str,
                      yesterday_prices.d, yesterday_date_str, sort_by,
                      DiffLoop(today_prices.d, yesterday_prices.d, 0,
                               [diffs |-> <<>>, up |-> 0, down |-> 0, stable |-> 0]))

----------------------------------------------------------------------------
(* Inputs *)

H(a, b) == <<a, b>>

\* Names a time point may carry: three hour labels and "24", which is none.
Names == {H("0","0"), H("0","1"), H("2","3"), H("2","4")}

\* Prices a time point may carry: absent, 1.0, 0.25004, "1.5", "abc", [1.0]
Prices == {JNull, JNum(100000), JNum(25004),
           JStr(<<"1", ".", "5">>), JStr(<<"a", "b", "c">>), JList}

TimePoints == {[name |-> nm, priceWestDenmark |-> pr] : nm \in Names, pr \in Prices}

MaxPoints == 2
MaxSeries == 2

\* The list `flat` cut into s series at the places cut[1] <= ... <= cut[s-1].
CutAt(flat, s, cut) ==
    [i \in 1..s |->
        [timePoints |-> SubSeq(flat,
                               (IF i = 1 THEN 0 ELSE cut[i - 1]) + 1,
                               IF i = s THEN Len(flat) ELSE cut[i])]]

\* The lists of at most max_series series holding at most max_points time
\* points between them
SeriesLists(max_points, max_series) ==
    UNION {UNION {{CutAt(flat, s, cut) :
                      cut \in {c \in [1..(s - 1) -> 0..n] :
                                  \A i \in 1..(s - 2) : c[i] <= c[i + 1]}} :
                   flat \in [1..n -> TimePoints]} :
           n \in 0..max_points, s \in 1..max_series}

ListPayload(items) == [has |-> TRUE, chartSeries |-> [t |-> "list", items |-> items]]

\* Payloads whose chartSeries is missing, null, [], 0 or a non-empty object.
OddPayloads ==
    {[has |-> FALSE, chartSeries |-> [t |-> "null", items |-> <<>>]]}
    \cup {[has |-> TRUE, chartSeries |-> [t |-> k, items |-> <<>>]] :
              k \in {"null", "list", "zero", "dict"}}

Payloads(max_points, max_series) ==
    OddPayloads \cup {ListPayload(items) : items \in SeriesLists(max_points, max_series)}

Today     == <<"2","0","2","4","/","0","5","/","0","1">>
Yesterday == <<"2","0","2","4","/","0","4","/","3","0">>
Dates == {Today, Yesterday}
CacheFiles == {CacheFile(d) : d \in Dates}

NoArgs == [date_str |-> <<>>, response |-> [st |-> "", data |-> <<>>], disk |-> ""]

NoHist == [calls |-> 0, cache |-> [f \in CacheFiles |-> Absent], requests |-> 0,
           prior |-> NoDict, first |-> [f \in CacheFiles |-> NoDict],
           stored |-> {}, touched |-> {}]

----------------------------------------------------------------------------
(* SpecAgg: one call of fetch_prices with an empty cache directory, for    *)
(* every payload the server may answer with.                               *)

InitAgg ==
    /\ pc = "call"
    /\ \E data \in Payloads(MaxPoints, MaxSeries) :
          args = [date_str |-> Today, response |-> [st |-> "ok", data |-> data],
                  disk |-> "ok"]
    /\ ret = RetNone
    /\ cache = [f \in CacheFiles |-> Absent]
    /\ requests = 0
    /\ hist = NoHist

CallAgg ==
    /\ pc = "call"
    /\ FetchPrices(args.date_str, args.response, args.disk)
    /\ pc' = "done"

NextAgg == CallAgg

SpecAgg == InitAgg /\ [][NextAgg]_vars

----------------------------------------------------------------------------
(* Spec: up to MaxCalls calls of fetch_prices, for either date, against a  *)
(* cache directory that may hold files from earlier runs, a server that    *)
(* may fail, and a disk that may refuse the write.                         *)

MaxCalls == 2

TP(nm, pr) == [name |-> nm, priceWestDenmark |-> pr]
OneSeries(tps) == [timePoints |-> tps]

\* What the server answers in Spec: {"00": 1.0}; {"00": 0.5001, "23": 1.5}
\* from two series; {"01": 0.05}; nothing parseable; a list for a price;
\* no chartSeries at all.
ServedPayloads ==
    { ListPayload(<<OneSeries(<<TP(H("0","0"), JNum(100000))>>)>>),
      ListPayload(<<OneSeries(<<TP(H("0","0"), JNum(25004))>>),
                    OneSeries(<<TP(H("0","0"), JNum(25004)),
                                TP(H("2","3"), JStr(<<"1", ".", "5">>))>>)>>),
      ListPayload(<<OneSeries(<<TP(H("0","1"), JStr(<<"0", ".", "0", "5">>))>>)>>),
      ListPayload(<<OneSeries(<<TP(H("0","1"), JStr(<<"a", "b", "c">>))>>)>>),
      ListPayload(<<OneSeries(<<TP(H("0","0"), JNum(100000)),
                                TP(H("0","1"), JList)>>)>>),
      [has |-> FALSE, chartSeries |-> [t |-> "null", items |-> <<>>]] }

NoPayload == [has |-> FALSE, chartSeries |-> [t |-> "null", items |-> <<>>]]

Responses ==
    {[st |-> "ok", data |-> data] : data \in ServedPayloads}
    \cup {[st |-> e, data |-> NoPayload] : e \in {"RequestException", "ValueError"}}

Disks == {"ok", "open_fails", "write_fails"}

\* Files an earlier run or the user may have left: {"00": 0.5} and {}
LeftOver == {Json(<<[k |-> H("0","0"), v |-> <<"0", ".", "5">>]>>), Json(<<>>)}

Init ==
    /\ pc = "idle"
    /\ args = NoArgs
    /\ ret = RetNone
    /\ cache \in [CacheFiles -> {Absent, Corrupt} \cup LeftOver]
    /\ requests = 0
    /\ hist = [NoHist EXCEPT !.cache = cache]

Call ==
    /\ hist.calls < MaxCalls
    /\ \E date_str \in Dates, response \in Responses, disk \in Disks :
          FetchPrices(date_str, response, disk)
    /\ pc' = "done"

Next == Call

Spec == Init /\ [][Next]_vars

----------------------------------------------------------------------------
(* The aggregation claims, read on the state after the call of SpecAgg.    *)

HourLabels == {Fmt02(h) : h \in 0..23}

\* A price the claims call parseable: a number, or text float() accepts.
Parseable(price) ==
    \/ price.t = "num"
    \/ price.t = "str" /\ ParseFloat(price.s).st = "ok"

\* Present (not null, not missing) and not parseable.
Unparseable(price) == price.t # "null" /\ ~Parseable(price)

SeriesOf(data) == IF data.has /\ data.chartSeries.t = "list"
                  THEN data.chartSeries.items ELSE <<>>

\* The places <<series, point>> of the time points named h with a parseable price
PricedAt(data, h) ==
    {pl \in UNION {{<<i, j>> : j \in 1..Len(SeriesOf(data)[i].timePoints)} :
                   i \in 1..Len(SeriesOf(data))} :
        LET tp == SeriesOf(data)[pl[1]].timePoints[pl[2]]
        IN  tp.name = h /\ Parseable(tp.priceWestDenmark)}

RECURSIVE SumAt(_, _)
SumAt(data, places) ==
    IF places = {} THEN 0
    ELSE LET pl == CHOOSE x \in places : TRUE
         IN  ToFloat(SeriesOf(data)[pl[1]].timePoints[pl[2]].priceWestDenmark).n
             + SumAt(data, places \ {pl})

Keys(d) == {d[i].k : i \in 1..Len(d)}
Get(d, k) == d[CHOOSE i \in 1..Len(d) : d[i].k = k].v

\* v is x rounded to 4 decimals: a multiple of 1e-4 no further than 0.5e-4
IsRounded4(v, x) == v % 10 = 0 /\ 2 * Abs(v - x) <= 10

Called == pc = "done"
Data == args.response.data

\* C1: for a payload whose chartSeries is a non-empty list, the call returns
\* a map (None standing for no key at all) in which an hour label is a key
\* exactly when some time point of that name carries a parseable price, the
\* value being the sum of those prices rounded to 4 decimals; no other key,
\* no key twice, at most 24 entries.
C1_HourlyTotals ==
    Called /\ SeriesOf(Data) # <<>> =>
        /\ ret.kind \in {"dict", "None"}
        /\ Keys(ret.val) \subseteq HourLabels
        /\ Cardinality(Keys(ret.val)) = Len(ret.val)
        /\ Len(ret.val) <= 24
        /\ \A h \in HourLabels :
              /\ h \in Keys(ret.val) <=> PricedAt(Data, h) # {}
              /\ h \in Keys(ret.val) =>
                    IsRounded4(Get(ret.val, h), SumAt(Data, PricedAt(Data, h)))

NoDataCase(data) ==
    \/ ~data.has
    \/ data.chartSeries.t # "list"
    \/ data.chartSeries.items = <<>>
    \/ \A h \in HourLabels : PricedAt(data, h) = {}

\* C2: the call returns None exactly in the NoData cases (no chartSeries
\* key, chartSeries empty or not a list, no hour with a parseable price),
\* and a non-empty map in every other case; it never raises.
C2_NoData ==
    Called =>
        /\ ret.kind # "raise"
        /\ ret.kind = "None" <=> NoDataCase(Data)
        /\ ~NoDataCase(Data) => ret.kind = "dict" /\ ret.val # <<>>

HasUnparseable(data) ==
    \E i \in 1..Len(SeriesOf(data)) :
        \E j \in 1..Len(SeriesOf(data)[i].timePoints) :
            Unparseable(SeriesOf(data)[i].timePoints[j].priceWestDenmark)

\* The payload with every unparseable price taken out (as if absent).
Scrub(data) ==
    [data EXCEPT !.chartSeries.items =
        [i \in 1..Len(@) |->
            [timePoints |->
                [j \in 1..Len(@[i].timePoints) |->
                    IF Unparseable(@[i].timePoints[j].priceWestDenmark)
                    THEN [@[i].timePoints[j] EXCEPT !.priceWestDenmark = JNull]
                    ELSE @[i].timePoints[j]]]]]

\* C3: a time point whose price is present but unparseable, of any kind, is
\* skipped: the call does not raise, and it returns what it returns for the
\* same payload without those prices.
C3_UnparseableSkipped ==
    Called /\ HasUnparseable(Data) =>
        /\ ret.kind # "raise"
        /\ ret = Aggregate(Scrub(Data))

----------------------------------------------------------------------------
(* The cache protocol, read on the state after any call of Spec.  hist     *)
(* holds the cache and the request count as they were before that call.    *)

AfterCall == hist.calls > 0
File == CacheFile(args.date_str)
WasHit == CacheHit(hist.cache[File])

\* d is a non-empty map from hour labels, no label twice
IsHourlyMap(d) ==
    /\ d # <<>>
    /\ Keys(d) \subseteq HourLabels
    /\ Cardinality(Keys(d)) = Len(d)

\* (1) a loadable file for the date: its content is returned, nothing is
\* requested, no file changes
C10_Hit ==
    AfterCall /\ WasHit =>
        /\ ret.kind = "dict"
        /\ JsonDump(ret.val) = hist.cache[File].text
        /\ requests = hist.requests
        /\ cache = hist.cache

\* (2) only a call that fetched and aggregated a non-empty map touches the
\* cache, and only the file of its date; a call ending in a transport error,
\* a JSON error or NoData returns None and leaves the cache as it was
C10_WriteOnlyOnSuccess ==
    AfterCall =>
        /\ cache # hist.cache =>
              /\ ~WasHit
              /\ args.response.st = "ok"
              /\ requests = hist.requests + 1
              /\ ret.kind = "dict" /\ IsHourlyMap(ret.val)
              /\ \A f \in CacheFiles \ {File} : cache[f] = hist.cache[f]
        /\ ~WasHit /\ args.response.st # "ok" => ret = RetNone
        /\ ~WasHit /\ ret.kind = "None" => cache = hist.cache

\* (2, as claimed) the file written equals the returned map
C10_EntryEqualsResult ==
    AfterCall /\ cache # hist.cache =>
        cache[File].st = "json" /\ JsonLoad(cache[File].text) = ret.val

\* (2, amended) ... when the write went through; when it did not, the file
\* is as it was or cannot be loaded
C10_EntryEqualsResultIfWritten ==
    AfterCall /\ cache # hist.cache =>
        IF args.disk = "ok"
        THEN cache[File].st = "json" /\ JsonLoad(cache[File].text) = ret.val
        ELSE cache[File] = Corrupt

\* (3) a failed write does not change what the call returns
C10_WriteFailureHarmless ==
    AfterCall /\ ~WasHit /\ args.response.st = "ok" =>
        ret = Aggregate(args.response.data)

\* (as claimed) every file the program wrote holds a non-empty hourly map
C10_WrittenAreMaps ==
    \A f \in hist.touched :
        cache[f].st = "json" /\ IsHourlyMap(JsonLoad(cache[f].text))

\* (amended) every file the program wrote holds a non-empty hourly map or
\* cannot be loaded
C10_WrittenAreMapsOrUnreadable ==
    \A f \in hist.touched :
        \/ cache[f] = Corrupt
        \/ cache[f].st = "json" /\ IsHourlyMap(JsonLoad(cache[f].text))

\* (as claimed) once a call for a date has returned a map, every later call
\* for that date returns the same map
C10_SecondCallSame ==
    AfterCall /\ hist.prior.has => ret = RetDict(hist.prior.val)

\* (amended) ... provided the first such call left a loadable cache file
C10_SecondCallSameIfStored ==
    AfterCall /\ hist.prior.has /\ hist.prior.kept => ret = RetDict(hist.prior.val)

----------------------------------------------------------------------------
(* The formatters, each called once on every input within the bounds.      *)
(* The cache directory plays no part and stays empty.                      *)

NoCache ==
    /\ cache = [f \in CacheFiles |-> Absent]
    /\ requests = 0
    /\ hist = NoHist

\* The lists of at most n elements of S, no element twice
DistinctSeqs(S, n) ==
    UNION {{q \in [1..m -> S] : \A i, j \in 1..m : i < j => q[i] # q[j]} : m \in 0..n}

\* The dicts of at most n items with keys from K and values from V
Dicts(K, V, n) ==
    UNION {{[i \in 1..Len(ks) |-> [k |-> ks[i], v |-> vs[i]]] : vs \in [1..Len(ks) -> V]} :
           ks \in DistinctSeqs(K, n)}

(* SpecRanges: _format_hour_ranges on every list of at most MaxHours       *)
(* distinct hour labels, in every order.                                   *)

MaxHours == 3

InitRanges ==
    /\ pc = "call"
    /\ \E hours \in DistinctSeqs(HourLabels, MaxHours) : args = [hours |-> hours]
    /\ ret = ""
    /\ NoCache

CallRanges ==
    /\ pc = "call"
    /\ ret' = _format_hour_ranges(args.hours)
    /\ pc' = "done"
    /\ UNCHANGED <<args, cache, requests, hist>>

NextRanges == CallRanges

SpecRanges == InitRanges /\ [][NextRanges]_vars

(* SpecSpark: _ascii_sparkline on every list of at most MaxValues elements *)
(* that are None or one of a few prices.                                   *)

MaxValues == 4

SparkValues == {None} \cup {Some(v) : v \in {-3, 0, 1, 2, 3, 4, 5, 6, 7, 8, 100}}

InitSpark ==
    /\ pc = "call"
    /\ \E n \in 0..MaxValues : \E prices \in [1..n -> SparkValues] :
          args = [prices |-> prices]
    /\ ret = <<>>
    /\ NoCache

CallSpark ==
    /\ pc = "call"
    /\ ret' = _ascii_sparkline(args.prices)
    /\ pc' = "done"
    /\ UNCHANGED <<args, cache, requests, hist>>

NextSpark == CallSpark

SpecSpark == InitSpark /\ [][NextSpark]_vars

(* SpecReport: format_prices_for_display on every dict of at most MaxItems *)
(* items, in every insertion order, under every sort_by ("" for None).     *)

MaxItems == 3

ReportKeys == {H("0","0"), H("0","1"), H("2","2"), H("2","3")}
ReportValues == {50000, 100000, 200000}
SortBys == {"", "price", "price_desc", "diff"}

InitReport ==
    /\ pc = "call"
    /\ \E prices \in Dicts(ReportKeys, ReportValues, MaxItems), sort_by \in SortBys :
          args = [prices |-> prices, date_str |-> Today, sort_by |-> sort_by]
    /\ ret = <<>>
    /\ NoCache

CallReport ==
    /\ pc = "call"
    /\ ret' = format_prices_for_display(args.prices, args.date_str, args.sort_by)
    /\ pc' = "done"
    /\ UNCHANGED <<args, cache, requests, hist>>

NextReport == CallReport

SpecReport == InitReport /\ [][NextReport]_vars

(* SpecCompare: format_comparison_for_display on every pair of prices,     *)
(* each None or a dict of at most MaxCmpItems items.  "24" is a key that   *)
(* is no hour; 1.00004 differs from 1.0 by less than the 1e-4 tolerance.   *)

MaxCmpItems == 2

CmpKeys == {H("0","0"), H("2","3"), H("2","4")}
CmpValues == {0, 100000, 100004}
CmpSortBys == {"", "diff", "diff_desc"}
CmpPrices(n) == {NoPrices} \cup {PricesOf(d) : d \in Dicts(CmpKeys, CmpValues, n)}

InitCompare ==
    /\ pc = "call"
    /\ \E today_prices \in CmpPrices(MaxCmpItems),
          yesterday_prices \in CmpPrices(MaxCmpItems),
          sort_by \in CmpSortBys :
          args = [today_prices |-> today_prices, yesterday_prices |-> yesterday_prices,
                  sort_by |-> sort_by]
    /\ ret = <<>>
    /\ NoCache

CallCompare ==
    /\ pc = "call"
    /\ ret' = format_comparison_for_display(args.today_prices, Today,
                                            args.yesterday_prices, Yesterday,
                                            args.sort_by)
    /\ pc' = "done"
    /\ UNCHANGED <<args, cache, requests, hist>>

NextCompare == CallCompare

SpecCompare == InitCompare /\ [][NextCompare]_vars

----------------------------------------------------------------------------
(* The formatter claims, read on the state after the call.  The expected   *)
(* texts are built here from numbers, without the program's helpers.       *)

Done == pc = "done"

\* The hour h as two digits of text
T2(h) == DigitChars[(h \div 10) + 1] \o DigitChars[(h % 10) + 1]

\* The number an hour label stands for
HourOfLabel(label) == CHOOSE h \in 0..23 : T2(h) = label[1] \o label[2]

\* The number of the hour written as text t
HourOfText(t) == CHOOSE h \in 0..23 : T2(h) = t

\* The maximal runs <<s, e>> of consecutive integers of S
MaximalRuns(S) ==
    {r \in S \X S : /\ r[1] <= r[2]
                    /\ \A h \in r[1]..r[2] : h \in S
                    /\ (r[1] - 1) \notin S
                    /\ (r[2] + 1) \notin S}

RunText(r) ==
    IF r[1] = r[2] THEN T2(r[1]) \o ":00"
    ELSE T2(r[1]) \o ":00-" \o T2((r[2] + 1) % 24) \o ":00"

\* The runs in ascending order of start, separated by ", "
RECURSIVE RunsText(_)
RunsText(runs) ==
    IF runs = {} THEN ""
    ELSE LET first == CHOOSE r \in runs : \A q \in runs : r[1] <= q[1]
         IN  IF runs = {first} THEN RunText(first)
             ELSE RunText(first) \o ", " \o RunsText(runs \ {first})

\* C4: the output lists exactly the maximal runs of consecutive hours of the
\* input, ascending, separated by ", "; a single hour h as "hh:00", a run
\* s..e as "ss:00-tt:00" with t = (e + 1) mod 24; "" for the empty input.
C4_HourRanges ==
    Done => ret = RunsText(MaximalRuns({HourOfLabel(args.hours[i]) :
                                           i \in 1..Len(args.hours)}))

\* 23, 00 and 22 given in that order: 00 alone, then the run 22-23 ending
\* at "00:00".
C4_Witness ==
    /\ Done
    /\ args.hours = <<H("2","3"), H("0","0"), H("2","2")>>
    /\ ret = "00:00, 22:00-00:00"

NonNull(prices) == SelectSeq(prices, LAMBDA x : x.some)

IsLevel(g) == \E i \in 1..8 : bars[i] = g
LevelOf(g) == (CHOOSE i \in 1..8 : bars[i] = g) - 1

\* C5: one glyph per non-null value, in order; the level L of a value v is
\* floor((v - min) / (max - min) * 7), in 0..7; the minimum is at level 0,
\* the maximum at level 7, a larger value never below a smaller one; every
\* glyph is the lowest when min = max; "" when no value is left.
C5_Sparkline ==
    Done =>
        LET vals == NonNull(args.prices)
            V    == {vals[i].v : i \in 1..Len(vals)}
            lo   == CHOOSE m \in V : \A x \in V : m <= x
            hi   == CHOOSE m \in V : \A x \in V : m >= x
        IN  /\ Len(ret) = Len(vals)
            /\ \A i \in 1..Len(vals) :
                  /\ IsLevel(ret[i])
                  /\ IF lo = hi THEN LevelOf(ret[i]) = 0
                     ELSE /\ LevelOf(ret[i]) * (hi - lo) <= (vals[i].v - lo) * 7
                          /\ (vals[i].v - lo) * 7 < (LevelOf(ret[i]) + 1) * (hi - lo)
                          /\ vals[i].v = lo => LevelOf(ret[i]) = 0
                          /\ vals[i].v = hi => LevelOf(ret[i]) = 7
            /\ \A i, j \in 1..Len(vals) :
                  IsLevel(ret[i]) /\ IsLevel(ret[j]) /\ vals[i].v <= vals[j].v
                      => LevelOf(ret[i]) <= LevelOf(ret[j])

\* A None dropped, and the minimum, a middle value and the maximum drawn
\* at levels 0, 3 and 7.
C5_Witness ==
    /\ Done
    /\ args.prices = <<Some(1), None, Some(4), Some(8)>>
    /\ ret = <<bars[1], bars[4], bars[8]>>

\* The lines of a report that use format string fmt, in order
LinesOf(lines, fmt) == SelectSeq(lines, LAMBDA l : l.fmt = fmt)

\* The price stored under the key written as text t
PriceAt(prices, t) ==
    prices[CHOOSE i \in 1..Len(prices) : prices[i].k[1] \o prices[i].k[2] = t].v

KeyTexts(prices) == {prices[i].k[1] \o prices[i].k[2] : i \in 1..Len(prices)}

\* C7: for a non-empty map the body has exactly one line per key and no
\* other line; it is ordered by ascending hour by default, by non-decreasing
\* price under "price", by non-increasing price under "price_desc"; a line
\* shows the hour and (hour + 1) mod 24.
C7_BodyLines ==
    Done /\ args.prices # <<>> =>
        LET body == LinesOf(ret, "hour")
        IN  /\ Len(body) = Len(args.prices)
            /\ Len(ret) = 5 + Len(body)
            /\ body = SubSeq(ret, 6, Len(ret))
            /\ {body[i].a[1] : i \in 1..Len(body)} = KeyTexts(args.prices)
            /\ \A i \in 1..Len(body) :
                  /\ body[i].a[2] = T2((HourOfText(body[i].a[1]) + 1) % 24)
                  /\ RenderLine(body[i]) =
                        body[i].a[1] \o ":00 - " \o body[i].a[2] \o ":00 | "
                        \o body[i].a[3] \o " DKK/kWh"
            /\ \A i, j \in 1..Len(body) : i < j =>
                  CASE args.sort_by = "price" ->
                          PriceAt(args.prices, body[i].a[1])
                              <= PriceAt(args.prices, body[j].a[1])
                    [] args.sort_by = "price_desc" ->
                          PriceAt(args.prices, body[i].a[1])
                              >= PriceAt(args.prices, body[j].a[1])
                    [] OTHER ->
                          HourOfText(body[i].a[1]) < HourOfText(body[j].a[1])

\* Hours 23, 00 and 22 inserted in that order and listed by hour: the last
\* line is hour 23, shown as "23:00 - 00:00".
C7_Witness ==
    /\ Done
    /\ args.sort_by = ""
    /\ Len(args.prices) = 3
    /\ args.prices[1].k = H("2","3") /\ args.prices[2].k = H("0","0")
    /\ Len(ret) = 8
    /\ ret[8].a[1] = "23" /\ ret[8].a[2] = "00"
    /\ ret[6].a[1] = "00"

\* The values of the map in ascending order of hour
RECURSIVE ByHour(_)
ByHour(prices) ==
    IF prices = <<>> THEN <<>>
    ELSE LET i == CHOOSE n \in 1..Len(prices) :
                      \A m \in 1..Len(prices) :
                          HourOfLabel(prices[n].k) <= HourOfLabel(prices[m].k)
         IN  <<prices[i].v>>
             \o ByHour(SubSeq(prices, 1, i - 1) \o SubSeq(prices, i + 1, Len(prices)))

\* C8: the Trend Sparkline line of the single-day report is the sparkline of
\* the map's values taken in ascending hour order, whatever the order in
\* which the map's entries were inserted.
C8_SparklineByHour ==
    Done /\ args.prices # <<>> =>
        /\ Len(LinesOf(ret, "sparkline")) = 1
        /\ LinesOf(ret, "sparkline")[1].a[1] =
              Str(_ascii_sparkline([i \in 1..Len(args.prices) |->
                                       Some(ByHour(args.prices)[i])]))

\* A prices argument that is a map with at least one entry
NonEmpty(prices) == prices.some /\ Len(prices.d) > 0

Both == NonEmpty(args.today_prices) /\ NonEmpty(args.yesterday_prices)

\* The hours that are keys of both maps
CommonHours ==
    LET today     == KeyTexts(args.today_prices.d)
        yesterday == KeyTexts(args.yesterday_prices.d)
    IN  {h \in 0..23 : T2(h) \in today /\ T2(h) \in yesterday}

DiffAt(h) == PriceAt(args.today_prices.d, T2(h)) - PriceAt(args.yesterday_prices.d, T2(h))

Increased == {h \in CommonHours : DiffAt(h) > 10}
Decreased == {h \in CommonHours : DiffAt(h) < -10}
Stable    == CommonHours \ (Increased \cup Decreased)

\* n < 10 as text
N1(n) == DigitChars[n + 1]

\* The hour a row is about: its first column starts with the hour
RowHour(row) == CHOOSE h \in 0..23 : row.a[1] = T2(h) \o ":00-" \o T2((h + 1) % 24) \o ":00"
IsHourRow(row) == \E h \in 0..23 : row.a[1] = T2(h) \o ":00-" \o T2((h + 1) % 24) \o ":00"

\* C6: with two non-empty maps there is one row per hour of 00..23 that is
\* a key of both maps and no other row; its change is today - yesterday;
\* the hours are counted as Increased (diff > 1e-4), Decreased (diff < -1e-4)
\* or Stable (otherwise), the three counts adding up to the number of common
\* hours; the trend glyph of a row agrees with the class of its hour.
C6_Comparison ==
    Done /\ Both =>
        LET rows      == LinesOf(ret, "row")
            counts    == LinesOf(ret, "counts")
            common    == CommonHours
            increased == Increased
            decreased == Decreased
            stable    == common \ (increased \cup decreased)
        IN  /\ Len(rows) = Cardinality(common)
            /\ \A i \in 1..Len(rows) : IsHourRow(rows[i])
            /\ {RowHour(rows[i]) : i \in 1..Len(rows)} = common
            /\ \A i \in 1..Len(rows) :
                  LET h    == RowHour(rows[i])
                      diff == DiffAt(h)
                  IN  /\ rows[i].a[4] =
                            (IF diff < 0 THEN "-" ELSE "")
                            \o format_price(Abs(diff), 4)
                      /\ rows[i].a[6] = "▲" <=> h \in increased
                      /\ rows[i].a[6] = "▼" <=> h \in decreased
                      /\ rows[i].a[6] = "●" <=> h \in stable
            /\ common # {} =>
                  /\ Len(counts) = 1
                  /\ counts[1].a =
                        <<N1(Cardinality(increased)), N1(Cardinality(decreased)),
                          N1(Cardinality(stable))>>
                  /\ Cardinality(increased) + Cardinality(decreased)
                        + Cardinality(stable) = Cardinality(common)

\* Two common hours, one a rise and one within the tolerance though not
\* equal: two rows, counted as one Increased and one Stable.
C6_Witness ==
    /\ Done /\ Both
    /\ CommonHours = {0, 23}
    /\ DiffAt(0) = 100000 /\ DiffAt(23) = 4
    /\ Len(LinesOf(ret, "row")) = 2
    /\ LinesOf(ret, "counts")[1].a = <<"1", "0", "1">>

\* C9: the text is empty when today's or yesterday's map is empty or
\* absent, and not empty when both are non-empty; when these share no hour
\* it is the title and the header row, with no summary and no data row.
C9_EmptyComparison ==
    Done =>
        /\ ~Both => Text(ret) = "" /\ ret = <<>>
        /\ Both => /\ Text(ret) # ""
                   /\ Len(ret) >= 2
                   /\ ret[1].fmt = "cmp_title"
        /\ Both /\ CommonHours = {} =>
              /\ Len(ret) = 2
              /\ ret[1].fmt = "cmp_title" /\ ret[2].fmt = "header"

\* Both maps non-empty without a common hour: the text is not empty, and it
\* is the title and the header row only.
C9_Witness ==
    /\ Done /\ Both /\ CommonHours = {}
    /\ Len(ret) = 2
    /\ Text(ret) # ""

====
